---------------------------- MODULE Spec2Model ----------------------------
(***************************************************************************)
(* A model of zotero.py: the ZoteroWrapper client (Better BibTeX readiness *)
(* probe, citation-key lookup, item formatting) and the tool operations    *)
(* built on it.                                                            *)
(*                                                                         *)
(* Python strings that the code parses are sequences of symbols; str.split *)
(* and str.strip are computed on them.  Every value that comes from        *)
(* outside the program (an HTTP response of the Better BibTeX service, a   *)
(* result or an exception of the pyzotero backend) is drawn from a set.    *)
(* A function that talks to the outside is modelled by the set of its      *)
(* possible outcomes, each outcome recording what was returned or raised,  *)
(* the requests that were sent, and the new values of the fields written.  *)
(***************************************************************************)
EXTENDS Integers, Sequences, FiniteSets, TLC

VARIABLES
    zotero_client,      \* the module global _zotero_client: "None" or "ZoteroWrapper"
    BBT,                \* ZoteroWrapper.BBT of the client
    bbt_ready_cache,    \* ZoteroWrapper._bbt_ready_cache of the client: "None" or "True"
    seenReady,          \* history: _check_bbt_library_ready of this client has returned True
    probesSent,         \* history: api.ready requests sent by this client, capped at MaxProbes
    last                \* the call that has just returned (op = "idle": none, awaiting a request)

vars == <<zotero_client, BBT, bbt_ready_cache, seenReady, probesSent, last>>

---------------------------------------------------------------------------
(* Bounds of the model. *)

\* longest item_key argument, in symbols
MaxLen == 3
\* longest properties argument, in symbols
MaxProps == 3
\* longest search query, in symbols
MaxQuery == 2
\* the api.ready counter stops counting here
MaxProbes == 2
\* longest text of a note, in tags and letters
MaxTokens == 3

(* Program constants. *)
DefaultLimit == 10
LimitCap == 100
SummaryLimit == 10
HttpOk == 200

---------------------------------------------------------------------------
(* Strings. *)

StringsUpTo(alphabet, n) == UNION {[1..k -> alphabet] : k \in 0..n}

Whitespace == {" ", "\n", "\t"}

RECURSIVE LStrip(_)
LStrip(s) == IF s # <<>> /\ Head(s) \in Whitespace THEN LStrip(Tail(s)) ELSE s

RECURSIVE RStrip(_)
RStrip(s) ==
    IF s # <<>> /\ s[Len(s)] \in Whitespace
    THEN RStrip(SubSeq(s, 1, Len(s) - 1)) ELSE s

\* str.strip()
Strip(s) == RStrip(LStrip(s))

\* str.split(','): the fields between the commas; one (empty) field for ""
RECURSIVE Split(_)
Split(s) ==
    IF \E i \in 1..Len(s) : s[i] = ","
    THEN LET i == CHOOSE j \in 1..Len(s) :
                    s[j] = "," /\ \A k \in 1..(j - 1) : s[k] # ","
         IN  <<SubSeq(s, 1, i - 1)>> \o Split(SubSeq(s, i + 1, Len(s)))
    ELSE <<s>>

\* [p.strip() for p in s.split(',')]
SplitStrip(s) == [i \in 1..Len(Split(s)) |-> Strip(Split(s)[i])]

Range(f) == {f[i] : i \in DOMAIN f}

\* the first occurrences of a sequence's elements, in order (dict insertion order)
RECURSIVE Dedup(_)
Dedup(s) ==
    IF s = <<>> THEN <<>>
    ELSE LET front == Dedup(SubSeq(s, 1, Len(s) - 1))
         IN  IF s[Len(s)] \in Range(front) THEN front ELSE Append(front, s[Len(s)])

---------------------------------------------------------------------------
(* Exceptions and JSON values. *)

NoExc == [type |-> "None", msg |-> <<>>]
Exc(t, m) == [type |-> t, msg |-> m]
Raised(o) == o.exc.type # "None"

\* json.JSONDecodeError is a ValueError
IsValueError(e) == e.type \in {"ValueError", "JSONDecodeError"}

\* decoded JSON bodies
JDict(f) == [t |-> "dict", v |-> f]
JNumber == [t |-> "number"]
JString == [t |-> "string"]
JList == [t |-> "list"]
IsDict(j) == j.t = "dict"
\* `key in j` raises TypeError on a number, looks for a member or substring otherwise
InRaises(j) == j.t = "number"
In(key, j) == IsDict(j) /\ key \in DOMAIN j.v

\* what an HTTP request can come to: an httpx.RequestError (TimeoutException is
\* one), or a response with a status and a body that is JSON or not
TransportError == [err |-> TRUE, msg |-> <<"All connection attempts failed">>]
Response(status, isJson, body) ==
    [err |-> FALSE, status |-> status, isJson |-> isJson, body |-> body]

EndpointResponses ==
    {TransportError, Response(200, FALSE, JString), Response(404, FALSE, JString)}

ReadyResponses ==
    { TransportError,
      Response(500, FALSE, JString),
      Response(200, FALSE, JString),
      Response(200, TRUE, JNumber),
      Response(200, TRUE, JList),
      Response(200, TRUE, JDict([error |-> JString])),
      Response(200, TRUE, JDict([result |-> JString])),
      Response(200, TRUE, JDict([result |-> JDict([zotero |-> JString])])),
      Response(200, TRUE,
               JDict([result |-> JDict([zotero |-> JString, betterbibtex |-> JString])])) }


\* the decoded "result" of item.citationkey: the (item key, citation key) pairs
\* of a JSON object, in the order of the object
JMap(pairs) == [t |-> "dict", pairs |-> pairs]

\* the items the library can hold
LibraryKeys == {<<"A">>, <<"B">>}

CiteMaps ==
    {pairs \in UNION {[1..n -> LibraryKeys \X {<<"cite">>}] : n \in 0..2} :
        \A i, j \in DOMAIN pairs : i # j => pairs[i][1] # pairs[j][1]}

LookupResponses ==
    { TransportError,
      Response(500, FALSE, JString),
      Response(200, FALSE, JString),
      Response(200, TRUE, JNumber),
      Response(200, TRUE, JList),
      Response(200, TRUE, JDict([error |-> JString])),
      Response(200, TRUE, JDict([jsonrpc |-> JString])),
      Response(200, TRUE, JDict([result |-> JList])) }
    \cup {Response(200, TRUE, JDict([result |-> JMap(m)])) : m \in CiteMaps}

---------------------------------------------------------------------------
(* ZoteroWrapper.  `self` is the record of the client's fields, with the   *)
(* two history fields; an outcome is [ret, exc, reqs, self].               *)

NewWrapper == [BBT |-> FALSE, cache |-> "None", seen |-> FALSE, probes |-> 0]

Outcome(ret, exc, reqs, self) == [ret |-> ret, exc |-> exc, reqs |-> reqs, self |-> self]

GetEndpoint == "GET /better-bibtex/json-rpc"
ApiReady == "POST api.ready"
ItemCitationKey == "POST item.citationkey"

\* _check_better_bibtex_endpoint, given what the GET comes to
CheckBetterBibtexEndpointOn(resp) ==
    IF resp.err THEN FALSE ELSE resp.status = HttpOk

\* the request of _check_bbt_library_ready (its try block), given what the POST
\* comes to
ProbeReady(self, resp) ==
    LET no == Outcome(FALSE, NoExc, <<ApiReady>>, self)
    IN  IF resp.err THEN no
        ELSE IF resp.status = HttpOk
        THEN IF ~resp.isJson THEN no
             ELSE IF InRaises(resp.body)
             THEN Outcome(FALSE,
                          Exc("TypeError", <<"argument of type 'int' is not iterable">>),
                          <<ApiReady>>, self)
             ELSE IF In("result", resp.body) /\ IsDict(resp.body.v.result)
             THEN LET ready == /\ In("betterbibtex", resp.body.v.result)
                               /\ In("zotero", resp.body.v.result)
                  IN  IF ready
                      THEN Outcome(TRUE, NoExc, <<ApiReady>>,
                                   [self EXCEPT !.cache = "True"])
                      ELSE no
             ELSE no
        ELSE no

\* mutant: the positive result is not cached
CheckReady_NotCached(self, resp) ==
    IF ~self.BBT THEN Outcome(FALSE, NoExc, <<>>, self)
    ELSE IF self.cache = "True" THEN Outcome(TRUE, NoExc, <<>>, self)
    ELSE [ProbeReady(self, resp) EXCEPT !.self = self]

\* mutant: the library is probed whether or not the endpoint was found
CheckReady_NoEndpointGuard(self, resp) ==
    IF self.cache = "True" THEN Outcome(TRUE, NoExc, <<>>, self)
    ELSE ProbeReady(self, resp)

\* mutant: a negative result is cached too, and answered from the cache
CheckReady_CachesNegative(self, resp) ==
    IF ~self.BBT THEN Outcome(FALSE, NoExc, <<>>, self)
    ELSE IF self.cache # "None" THEN Outcome(self.cache = "True", NoExc, <<>>, self)
    ELSE LET o == ProbeReady(self, resp)
         IN  IF Raised(o) \/ o.ret THEN o ELSE [o EXCEPT !.self.cache = "False"]

\* _check_bbt_library_ready, given what the POST comes to if it is sent
CheckBbtLibraryReadyOn(self, resp) ==
    IF ~self.BBT THEN Outcome(FALSE, NoExc, <<>>, self)
    ELSE IF self.cache = "True" THEN Outcome(TRUE, NoExc, <<>>, self)
    ELSE ProbeReady(self, resp)

\* the history of a call of _check_bbt_library_ready: whether it has returned
\* True, and the api.ready requests it has sent
Observed(o) ==
    [o EXCEPT !.self.seen = @ \/ (~Raised(o) /\ o.ret),
              !.self.probes = IF ApiReady \in Range(o.reqs) /\ @ < MaxProbes
                              THEN @ + 1 ELSE @]

CheckBbtLibraryReady(self) ==
    {Observed(CheckBbtLibraryReadyOn(self, resp)) : resp \in ReadyResponses}

\* the item.citationkey request of citation_keys, given what the POST comes to
LookupOn(self, reqs, resp) ==
    LET sent == Append(reqs, ItemCitationKey)
        raise(e) == Outcome(JList, e, sent, self)
    IN  IF resp.err
        THEN raise(Exc("Exception", <<"Failed to fetch citation keys: ">> \o resp.msg))
        ELSE IF resp.status = HttpOk
        THEN IF ~resp.isJson
             THEN raise(Exc("Exception",
                            <<"Failed to fetch citation keys: ", "Expecting value">>))
             ELSE IF InRaises(resp.body)
             THEN raise(Exc("TypeError", <<"argument of type 'int' is not iterable">>))
             ELSE IF In("result", resp.body)
             THEN Outcome(resp.body.v.result, NoExc, sent, self)
             ELSE IF In("error", resp.body)
             THEN raise(Exc("Exception", <<"Better BibTeX error: ", "error">>))
             ELSE raise(Exc("Exception", <<"Invalid response from Better BibTeX">>))
        ELSE raise(Exc("Exception", <<"HTTP error ", "500">>))

NotAvailable == Exc("Exception", <<"Better BibTeX is not available">>)
NotReady ==
    Exc("Exception",
        <<"Better BibTeX library is not ready. Needs some time after starting Zotero.">>)

\* citation_keys
CitationKeys(self, item_keys) ==
    IF ~self.BBT THEN {Outcome(JList, NotAvailable, <<>>, self)}
    ELSE UNION {
           IF Raised(p) THEN {Outcome(JList, p.exc, p.reqs, p.self)}
           ELSE IF ~p.ret THEN {Outcome(JList, NotReady, p.reqs, p.self)}
           ELSE IF item_keys = <<>> THEN {Outcome(JMap(<<>>), NoExc, p.reqs, p.self)}
           ELSE {LookupOn(p.self, p.reqs, resp) : resp \in LookupResponses}
         : p \in CheckBbtLibraryReady(self)}

\* ZoteroWrapper(): __init__ probes the endpoint, then the library; an exception in
\* it makes __init__ return a string, which Python answers with a TypeError
InitReturnedStr == Exc("TypeError", <<"__init__() should return None, not 'str'">>)

\* an outcome with the exception that was caught on the way (history)
Caused(o, e) == [ret |-> o.ret, exc |-> o.exc, reqs |-> o.reqs, self |-> o.self,
                 cause |-> e]

\* mutant: the constructor sends nothing and leaves the probes to the first use
ZoteroWrapperInit_NoProbes ==
    {Caused(Outcome("ZoteroWrapper", NoExc, <<>>, NewWrapper), NoExc)}

ZoteroWrapperInit ==
    UNION {
      LET self == [NewWrapper EXCEPT !.BBT = CheckBetterBibtexEndpointOn(e)]
      IN  { IF Raised(p)
            THEN Caused(Outcome("None", InitReturnedStr, <<GetEndpoint>> \o p.reqs,
                                NewWrapper), p.exc)
            ELSE Caused(Outcome("ZoteroWrapper", NoExc, <<GetEndpoint>> \o p.reqs,
                                p.self), NoExc)
          : p \in CheckBbtLibraryReady(self) }
    : e \in EndpointResponses}

\* _get_zotero_client: ret is the new value of the global
GetZoteroClient(client, self) ==
    IF client = "None" THEN ZoteroWrapperInit
    ELSE {Caused(Outcome(client, NoExc, <<>>, self), NoExc)}

---------------------------------------------------------------------------
(* Python values of the raw records, and format_item.  A dict is a function *)
(* whose domain is its keys.                                                *)

PyNone == [t |-> "None"]
Str(s) == [t |-> "str", v |-> s]
PyInt(n) == [t |-> "int", v |-> n]
List(l) == [t |-> "list", v |-> l]
EmptyDict == <<>>

Has(d, k) == k \in DOMAIN d
\* d.get(k, default)
Get(d, k, default) == IF Has(d, k) THEN d[k] ELSE default
\* d.update(e)
Update(d, e) == e @@ d
Truthy(x) == x.t = "str" /\ x.v # <<>>

\* sep.join(parts), of texts that are sequences of symbols
RECURSIVE Join(_, _)
Join(parts, sep) ==
    IF parts = <<>> THEN <<>>
    ELSE IF Len(parts) = 1 THEN parts[1]
    ELSE parts[1] \o sep \o Join(Tail(parts), sep)

\* the name_parts of one creator, joined
CreatorName(creator) ==
    Join((IF Truthy(Get(creator, "firstName", PyNone))
          THEN <<creator.firstName.v>> ELSE <<>>)
         \o (IF Truthy(Get(creator, "lastName", PyNone))
             THEN <<creator.lastName.v>> ELSE <<>>),
         <<" ">>)

\* format_creators
FormatCreators(creators) ==
    LET names == SelectSeq([i \in 1..Len(creators) |-> CreatorName(creators[i])],
                           LAMBDA n : n # <<>>)
    IN  IF Join(names, <<", ">>) # <<>> THEN Str(Join(names, <<", ">>))
        ELSE Str(<<"No authors listed">>)

\* format_item, of a record that is no note
FormatRegular(data, include_abstract) ==
    Update([authors |-> FormatCreators(Get(data, "creators", List(<<>>)).v)],
           IF include_abstract
           THEN [abstractNote |->
                    Get(data, "abstractNote", Str(<<"No abstract available">>))]
           ELSE EmptyDict)

\* the optional fields of format_item
OptionalFields(item, data) ==
    (IF Has(data, "DOI") THEN [doi |-> data.DOI] ELSE EmptyDict)
    @@ (IF Has(data, "url") THEN [url |-> data.url] ELSE EmptyDict)
    @@ (IF Has(data, "publicationTitle")
        THEN [publicationTitle |-> data.publicationTitle] ELSE EmptyDict)
    @@ (IF Has(data, "tags")
        THEN [tags |-> List(
                 LET named == SelectSeq(data.tags.v,
                                        LAMBDA t : Truthy(Get(t, "tag", PyNone)))
                 IN  [i \in 1..Len(named) |-> named[i].tag])]
        ELSE EmptyDict)
    @@ (IF Has(data, "children")
        THEN [numAttachements |->
                 Get(Get(data, "meta", EmptyDict), "numChildren", PyInt(0))]
        ELSE EmptyDict)
    @@ (IF Has(item, "BBT_key") THEN [bibtexKey |-> item.BBT_key] ELSE EmptyDict)

---------------------------------------------------------------------------
(* format_note and its simple_html_to_md, on texts that are sequences of    *)
(* characters.                                                              *)

StartsWith(s, p) == Len(s) >= Len(p) /\ SubSeq(s, 1, Len(p)) = p
Drop(s, n) == SubSeq(s, n + 1, Len(s))

\* str.replace(old, new): the occurrences of old, left to right, not overlapping
RECURSIVE Replace(_, _, _)
Replace(s, old, new) ==
    IF s = <<>> THEN <<>>
    ELSE IF StartsWith(s, old) THEN new \o Replace(Drop(s, Len(old)), old, new)
    ELSE <<Head(s)>> \o Replace(Tail(s), old, new)

\* the length of the longest prefix of s whose characters are all outside `stop`
RECURSIVE Span(_, _)
Span(s, stop) ==
    IF s = <<>> \/ Head(s) \in stop THEN 0 ELSE 1 + Span(Tail(s), stop)

\* the least n such that s, after n characters other than a line break, goes on
\* with p; -1 if there is none  (the lazy .*? of a pattern that goes on with p)
RECURSIVE LazyUpTo(_, _)
LazyUpTo(s, p) ==
    IF StartsWith(s, p) THEN 0
    ELSE IF s = <<>> \/ Head(s) = "\n" THEN -1
    ELSE LET n == LazyUpTo(Tail(s), p) IN IF n < 0 THEN -1 ELSE n + 1

AOpen == <<"<", "a", " ", "h", "r", "e", "f", "=", "\"">>
AClose == <<"<", "/", "a", ">">>

\* a match of <a href="([^"]+)"[^>]*>(.*?)</a> at the start of s:
\* [ok, href, text, len]
LinkMatch(s) ==
    LET none == [ok |-> FALSE, href |-> <<>>, text |-> <<>>, len |-> 0]
    IN  IF ~StartsWith(s, AOpen) THEN none
        ELSE
          LET s1 == Drop(s, Len(AOpen))
              h == Span(s1, {"\""})
              s2 == Drop(s1, h)
          IN  IF h = 0 \/ s2 = <<>> THEN none
              ELSE
                LET s3 == Tail(s2)
                    g == Span(s3, {">"})
                    s4 == Drop(s3, g)
                IN  IF s4 = <<>> THEN none
                    ELSE
                      LET s5 == Tail(s4)
                          n == LazyUpTo(s5, AClose)
                      IN  IF n < 0 THEN none
                          ELSE [ok |-> TRUE,
                                href |-> SubSeq(s1, 1, h),
                                text |-> SubSeq(s5, 1, n),
                                len |-> (Len(s) - Len(s5)) + n + Len(AClose)]

\* re.sub(r'<a href="([^"]+)"[^>]*>(.*?)</a>', r'[\2](\1)', s)
RECURSIVE SubLinks(_)
SubLinks(s) ==
    IF s = <<>> THEN <<>>
    ELSE LET m == LinkMatch(s)
         IN  IF m.ok
             THEN <<"[">> \o m.text \o <<"]", "(">> \o m.href \o <<")">>
                  \o SubLinks(Drop(s, m.len))
             ELSE <<Head(s)>> \o SubLinks(Tail(s))

\* re.sub(r'<[^>]*>', '', s)
RECURSIVE StripTags(_)
StripTags(s) ==
    IF s = <<>> THEN <<>>
    ELSE IF Head(s) = "<" /\ Span(Tail(s), {">"}) < Len(Tail(s))
    THEN StripTags(Drop(Tail(s), Span(Tail(s), {">"}) + 1))
    ELSE <<Head(s)>> \o StripTags(Tail(s))

Hashes(n) == [i \in 1..n |-> "#"]
Digit(n) == CASE n = 1 -> "1" [] n = 2 -> "2" [] n = 3 -> "3"
              [] n = 4 -> "4" [] n = 5 -> "5" [] n = 6 -> "6"
HOpen(n) == <<"<", "h", Digit(n), ">">>
HClose(n) == <<"<", "/", "h", Digit(n), ">">>

\* mutant: every level gets the marker of level 6
RECURSIVE Headings_SameMarker(_, _)
Headings_SameMarker(s, i) ==
    IF i = 0 THEN s
    ELSE Headings_SameMarker(Replace(Replace(s, HOpen(i), Hashes(6) \o <<" ">>),
                                     HClose(i), <<"\n", "\n">>),
                             i - 1)

\* for i in range(6, 0, -1): the heading replacements, from level i down to 1
RECURSIVE Headings(_, _)
Headings(s, i) ==
    IF i = 0 THEN s
    ELSE Headings(Replace(Replace(s, HOpen(i), Hashes(i) \o <<" ">>),
                          HClose(i), <<"\n", "\n">>),
                  i - 1)

Tag(name) == <<"<">> \o name \o <<">">>
EndTag(name) == <<"<", "/">> \o name \o <<">">>
\* html.replace(open, a).replace(close, b)
Replace2(s, name, a, b) == Replace(Replace(s, Tag(name), a), EndTag(name), b)

\* simple_html_to_md
SimpleHtmlToMd(html) ==
    LET h1 == Headings(html, 6)
        h2 == Replace2(h1, <<"s", "t", "r", "o", "n", "g">>, <<"*", "*">>, <<"*", "*">>)
        h3 == Replace2(h2, <<"b">>, <<"*", "*">>, <<"*", "*">>)
        h4 == Replace2(h3, <<"e", "m">>, <<"*">>, <<"*">>)
        h5 == Replace2(h4, <<"i">>, <<"*">>, <<"*">>)
        h6 == Replace2(h5, <<"u", "l">>, <<"\n">>, <<"\n">>)
        h7 == Replace2(h6, <<"o", "l">>, <<"\n">>, <<"\n">>)
        h8 == Replace2(h7, <<"l", "i">>, <<"-", " ">>, <<"\n">>)
        h9 == Replace2(h8, <<"p">>, <<>>, <<"\n", "\n">>)
        h10 == Replace(Replace(Replace(h9, <<"<", "b", "r", ">">>, <<"\n">>),
                               <<"<", "b", "r", "/", ">">>, <<"\n">>),
                       <<"<", "b", "r", " ", "/", ">">>, <<"\n">>)
    IN  Strip(StripTags(SubLinks(h10)))

\* format_note
FormatNote(item) ==
    LET data == Get(item, "data", EmptyDict)
    IN  [parent |-> Get(data, "parentItem", Str(<<>>)),
         last_modified |-> Get(data, "dateModified", Str(<<>>)),
         note |-> Str(SimpleHtmlToMd(Get(data, "note", Str(<<>>)).v))]

\* mutant: a note gets the fields of a regular item as well
FormatItem_NoteAsRegular(item, include_abstract) ==
    LET data == Get(item, "data", EmptyDict)
        itemType == Get(data, "itemType", Str(<<"Unknown type">>))
        formatted == [title |-> Get(data, "title", Str(<<"Untitled">>)),
                      key |-> Get(data, "key", PyNone),
                      itemType |-> itemType,
                      date |-> Get(data, "date", Str(<<"No date">>))]
    IN  Update(Update(Update(formatted, FormatRegular(data, include_abstract)),
                      IF itemType = Str(<<"note">>) THEN FormatNote(item)
                      ELSE EmptyDict),
               OptionalFields(item, data))

\* format_item
FormatItem(item, include_abstract) ==
    LET data == Get(item, "data", EmptyDict)
        itemType == Get(data, "itemType", Str(<<"Unknown type">>))
        formatted == [title |-> Get(data, "title", Str(<<"Untitled">>)),
                      key |-> Get(data, "key", PyNone),
                      itemType |-> itemType,
                      date |-> Get(data, "date", Str(<<"No date">>))]
    IN  Update(Update(formatted,
                      IF itemType = Str(<<"note">>) THEN FormatNote(item)
                      ELSE FormatRegular(data, include_abstract)),
               OptionalFields(item, data))

---------------------------------------------------------------------------
(* The pyzotero backend: what each call used by the tools can come to.  An  *)
(* outcome is [ret, exc].                                                   *)

Returns(v) == [ret |-> v, exc |-> NoExc]
Raises(e) == [ret |-> <<>>, exc |-> e]

\* a refused connection, and a body that is no JSON (httpx's Response.json raises
\* json.JSONDecodeError, a ValueError)
BackendErrors ==
    { Exc("ConnectError", <<"All connection attempts failed">>),
      Exc("JSONDecodeError", <<"Expecting value: line 1 column 1 (char 0)">>) }

\* the raw record of an item of the library: A is an article, B a note
RawItem(key) ==
    IF key = <<"A">>
    THEN [key |-> key,
          data |-> [key |-> Str(key),
                    itemType |-> Str(<<"journalArticle">>),
                    title |-> Str(<<"X">>),
                    creators |-> List(<<[firstName |-> Str(<<"A">>),
                                         lastName |-> Str(<<"B">>)]>>),
                    DOI |-> Str(<<"10.1/x">>)]]
    ELSE [key |-> key,
          data |-> [key |-> Str(key),
                    itemType |-> Str(<<"note">>),
                    parentItem |-> Str(<<"A">>),
                    note |-> Str(<<"<", "h", "1", ">", "T", "<", "/", "h", "1", ">",
                                   "<", "p", ">", "B", "<", "/", "p", ">">>)]]

\* client.get_subset(item_keys): the records of the requested keys that exist
GetSubset(item_keys) ==
    { Returns(LET found == SelectSeq(item_keys, LAMBDA k : k \in existing)
              IN  [i \in 1..Len(found) |-> RawItem(found[i])])
      : existing \in SUBSET LibraryKeys }
    \cup {Raises(e) : e \in BackendErrors}

\* client.items(...) and client.collection_items(...)
ItemLists == {<<>>, <<RawItem(<<"A">>)>>, <<RawItem(<<"B">>), RawItem(<<"A">>)>>}
FetchItems == {Returns(l) : l \in ItemLists} \cup {Raises(e) : e \in BackendErrors}

---------------------------------------------------------------------------
(* The tools.  An outcome is [ret, diag, api, bbt, client, self, cause,     *)
(* fetched, empty]:                                                         *)
(* the payload returned, the messages sent to the context, the backend      *)
(* calls and the Better BibTeX requests made, in order, the new values of   *)
(* the global and of the client's fields, and (history) the exception that  *)
(* a backend call or the client's construction failed with, if one did, and *)
(* the items the backend returned and the helpers whose backend call        *)
(* returned nothing.                                                        *)
(* A payload is a JSON object or list.                                      *)

\* the limit arguments tried: None, and a number over the cap
Limits == {PyNone, PyInt(200)}

\* a backend call in the log
Call(name, limit) == [call |-> name, limit |-> limit]

Obj(fields) == [shape |-> "object", json |-> fields]
Arr(elems) == [shape |-> "list", json |-> elems]

ToolOutcome(ret, diag, api, bbt, c, cause) ==
    [ret |-> ret, diag |-> diag, api |-> api, bbt |-> bbt,
     client |-> c.ret, self |-> c.self, cause |-> cause, fetched |-> <<>>,
     empty |-> {}]

\* an outcome with the items that the backend returned (history)
Fetched(o, v) == [o EXCEPT !.fetched = v]
\* an outcome with the helpers whose backend call returned nothing (history)
Emptied(o, s) == [o EXCEPT !.empty = s]

\* `if context and hasattr(context, '_fastmcp'): await context.error(msg)`
GuardedError(context, msg) ==
    IF context # "None" THEN << <<"error", msg>> >> ELSE <<>>

\* `for key, BBT_key in bbt_keys.items(): items[key]['BBT_key'] = BBT_key`, on the
\* ordered dict items (a sequence of records of distinct keys): [items, exc]
RECURSIVE SetBbtKeys(_, _)
SetBbtKeys(items, pairs) ==
    IF pairs = <<>> THEN [items |-> items, exc |-> NoExc]
    ELSE LET at == {i \in DOMAIN items : items[i].key = pairs[1][1]}
         IN  IF at = {}
             THEN [items |-> items,
                   exc |-> Exc("KeyError", <<"'">> \o pairs[1][1] \o <<"'">>)]
             ELSE SetBbtKeys(
                    [items EXCEPT ![CHOOSE i \in at : TRUE] =
                                      ("BBT_key" :> Str(pairs[1][2])) @@ @],
                    Tail(pairs))

\* the body of `try: bbt_keys = client.citation_keys(...) ...` of
\* get_items_metadata, for one outcome k of citation_keys: [items, exc]
TryBbtKeys(items, k) ==
    IF Raised(k) THEN [items |-> items, exc |-> k.exc]
    ELSE IF ~Has(k.ret, "pairs")
    THEN [items |-> items,
          exc |-> Exc("AttributeError", <<"'list' object has no attribute 'items'">>)]
    ELSE SetBbtKeys(items, k.ret.pairs)

NoneHasNoWarning ==
    Exc("AttributeError", <<"'NoneType' object has no attribute 'warning'">>)

ItemsPayload(items, item_keys) ==
    LET formatted == [i \in 1..Len(items) |-> FormatItem(items[i], TRUE)]
    IN  IF Len(items) < Len(item_keys)
        THEN Obj([log |-> [error |-> <<"Some items not found">>,
                           missing_keys |->
                               Range(item_keys) \ {items[i].key : i \in DOMAIN items},
                           suggestion |->
    <<"Verify the items exist and you have permission to access them">>],
                  items |-> formatted])
        ELSE Arr(formatted)

\* get_items_metadata
GetItemsMetadata(client, self, item_key, include_bibtex, context) ==
    LET item_keys == SplitStrip(item_key)
        Failed(e, api, bbt, c, cause) ==
            ToolOutcome(
                Obj([error |-> <<"Failed to fetch item details. Message: ">> \o e.msg,
                     item_key |-> item_key]),
                GuardedError(context, <<"Failed to fetch item details ">> \o item_key
                                       \o <<". Message: ">> \o e.msg),
                api, bbt, c, cause)
    IN  UNION {
          IF Raised(c) THEN {Failed(c.exc, <<>>, c.reqs, c, c.cause)}
          ELSE UNION {
            IF Raised(f) THEN {Failed(f.exc, <<Call("get_subset", PyNone)>>, c.reqs, c, f.exc)}
            ELSE
              LET keys == Dedup([i \in 1..Len(f.ret) |-> f.ret[i].key])
                  items == [i \in 1..Len(keys) |->
                              f.ret[CHOOSE j \in DOMAIN f.ret :
                                      /\ f.ret[j].key = keys[i]
                                      /\ \A l \in DOMAIN f.ret :
                                            f.ret[l].key = keys[i] => l <= j]]
                  outs ==
                  IF Len(items) = 0
                  THEN {ToolOutcome(
                          Obj([error |-> <<"Items not found">>,
                               missing_keys |-> item_keys,
                               suggestion |->
    <<"Verify the items exist and you have permission to access them">>]),
                          <<>>, <<Call("get_subset", PyNone)>>, c.reqs, c, NoExc)}
                  ELSE IF include_bibtex
                  THEN { LET t == TryBbtKeys(items, k)
                             c2 == [c EXCEPT !.self = k.self]
                         IN  IF t.exc.type = "None"
                             THEN ToolOutcome(ItemsPayload(t.items, item_keys), <<>>,
                                              <<Call("get_subset", PyNone)>>, c.reqs \o k.reqs, c2, NoExc)
                             ELSE IF context = "None"
                             THEN Failed(NoneHasNoWarning, <<Call("get_subset", PyNone)>>,
                                         c.reqs \o k.reqs, c2, NoExc)
                             ELSE ToolOutcome(ItemsPayload(t.items, item_keys),
                                              << <<"warning", <<"BBT: ">> \o t.exc.msg>> >>,
                                              <<Call("get_subset", PyNone)>>, c.reqs \o k.reqs, c2, NoExc)
                       : k \in CitationKeys(c.self, keys) }
                  ELSE {ToolOutcome(ItemsPayload(items, item_keys), <<>>,
                                    <<Call("get_subset", PyNone)>>, c.reqs, c, NoExc)}
              IN  {Fetched(o, f.ret) : o \in outs}
          : f \in GetSubset(item_keys) }
        : c \in GetZoteroClient(client, self) }


\* get_collection_items
GetCollectionItems(client, self, collection_key, limit, context) ==
    LET Failed(e, api, c, cause) ==
            ToolOutcome(
                Obj([error |-> <<"Failed to fetch collection items. Message: ">> \o e.msg,
                     collection_key |-> collection_key]),
                GuardedError(context, <<"Failed to fetch collection items ">>
                                       \o collection_key \o <<". Message: ">> \o e.msg),
                api, c.reqs, c, cause)
        api == <<Call("collection_items", limit)>>
    IN  UNION {
          IF Raised(c) THEN {Failed(c.exc, <<>>, c, c.cause)}
          ELSE { IF Raised(f) THEN Failed(f.exc, api, c, f.exc)
                 ELSE IF f.ret = <<>>
                 THEN ToolOutcome(
                        Obj([error |-> <<"Collection is empty">>,
                             collection_key |-> collection_key,
                             suggestion |->
                                 <<"Add some items to this collection in Zotero">>]),
                        <<>>, api, c.reqs, c, NoExc)
                 ELSE Fetched(ToolOutcome(
                        Arr([i \in 1..Len(f.ret) |-> FormatItem(f.ret[i], TRUE)]),
                        <<>>, api, c.reqs, c, NoExc), f.ret)
               : f \in FetchItems }
        : c \in GetZoteroClient(client, self) }

\* the try block of search_library
SearchTry(client, self, query, tag, include_abstract, limit, context) ==
    LET Failed(e, api, c, cause) ==
            ToolOutcome(
                Obj([error |-> <<"Search failed. Message: ">> \o e.msg,
                     query |-> query]),
                GuardedError(context, <<"Search failed (">> \o query
                                       \o <<"). Message: ">> \o e.msg),
                api, c.reqs, c, cause)
        \* the optional arguments that are not None
        api == << [call |-> "items", q |-> query]
                  @@ (IF tag # PyNone THEN [tag |-> tag] ELSE EmptyDict)
                  @@ (IF limit # PyNone THEN [limit |-> limit] ELSE EmptyDict) >>
    IN  UNION {
          IF Raised(c) THEN {Failed(c.exc, <<>>, c, c.cause)}
          ELSE { IF Raised(f) THEN Failed(f.exc, api, c, f.exc)
                 ELSE IF Len(f.ret) < 1
                 THEN ToolOutcome(
                        Obj([error |-> <<"No results found">>,
                             query |-> query,
                             suggestion |->
    <<"Try a different search term or verify your library contains matching items">>]),
                        <<>>, api, c.reqs, c, NoExc)
                 ELSE Fetched(ToolOutcome(
                        Arr([i \in 1..Len(f.ret) |->
                                FormatItem(f.ret[i], include_abstract)]),
                        <<>>, api, c.reqs, c, NoExc), f.ret)
               : f \in FetchItems }
        : c \in GetZoteroClient(client, self) }

QueryRequired(client, self) ==
    ToolOutcome(Obj([error |-> <<"Search query is required">>]),
                <<>>, <<>>, <<>>, Outcome(client, NoExc, <<>>, self), NoExc)

\* mutant: the query is tested without being stripped
SearchLibrary_NotStripped(client, self, query, tag, include_abstract, limit, context) ==
    IF query = <<>> THEN {QueryRequired(client, self)}
    ELSE SearchTry(client, self, query, tag, include_abstract, limit, context)

\* search_library
SearchLibrary(client, self, query, tag, include_abstract, limit, context) ==
    IF Strip(query) = <<>> THEN {QueryRequired(client, self)}
    ELSE SearchTry(client, self, query, tag, include_abstract, limit, context)

\* min(int(limit or 10), 100)
LimitInt(limit) ==
    LET n == IF limit = PyNone \/ limit.v = 0 THEN DefaultLimit ELSE limit.v
    IN  IF n < LimitCap THEN n ELSE LimitCap

\* the helpers of get_zotero_information, after their _get_zotero_client():
\* [ret, exc, api, cause, empty], cause and empty being history: the exception of
\* the backend call, and whether it returned an empty result
Helper(ret, exc, api) ==
    [ret |-> ret, exc |-> exc, api |-> api, cause |-> exc, empty |-> FALSE]
\* a helper's outcome when the backend returned nothing (history)
Empty(h) == [h EXCEPT !.empty = TRUE]

\* _get_library_info
GetLibraryInfo ==
    {Helper(Obj([info |-> <<"This is a primary Zotero library">>,
                 number_of_entries |-> 2]), NoExc, <<Call("count_items", PyNone)>>)}
    \cup {Helper(Arr(<<>>), e, <<Call("count_items", PyNone)>>) : e \in BackendErrors}

\* _get_groups
GetGroups ==
    {Empty(Helper(Obj(EmptyDict), NoExc, <<Call("groups", PyNone)>>)),
     Helper(Obj([g1 |-> [name |-> <<"G">>, number_of_entries |-> 1]]), NoExc,
            <<Call("groups", PyNone)>>)}
    \cup {Helper(Arr(<<>>), e, <<Call("groups", PyNone)>>) : e \in BackendErrors}

\* _get_recent_items
GetRecentItems(limit) ==
    LET api == <<Call("items", PyInt(LimitInt(limit)))>>
    IN  { IF Raised(f)
          THEN IF IsValueError(f.exc)
               THEN [Helper(Obj([error |-> <<"Invalid limit parameter">>,
                                 suggestion |->
                                     <<"Please provide a valid number for limit">>]),
                            NoExc, api) EXCEPT !.cause = f.exc]
               ELSE Helper(Arr(<<>>), f.exc, api)
          ELSE IF f.ret = <<>>
          THEN Empty(Helper(Obj([error |-> <<"No recent items found">>,
                                 suggestion |->
                                     <<"Add some items to your Zotero library first">>]),
                            NoExc, api))
          ELSE Helper(Arr([i \in 1..Len(f.ret) |-> FormatItem(f.ret[i], FALSE)]),
                      NoExc, api)
        : f \in FetchItems }

\* _get_tags
GetTags(limit) ==
    {Empty(Helper(Obj([error |-> <<"No tags found">>,
                       suggestion |-> <<"You need to create tags in your library">>]),
                  NoExc, <<Call("tags", limit)>>)),
     Helper(Arr(<<[tag |-> <<"t">>]>>), NoExc, <<Call("tags", limit)>>)}
    \cup {Helper(Arr(<<>>), e, <<Call("tags", limit)>>) : e \in BackendErrors}

\* _get_collections
GetCollections(limit) ==
    {Empty(Helper(Arr(<<>>), NoExc, <<Call("collections", limit)>>)),
     Helper(Arr(<<[key |-> <<"C">>]>>), NoExc, <<Call("collections", limit)>>)}
    \cup {Helper(Arr(<<>>), e, <<Call("collections", limit)>>) : e \in BackendErrors}

\* the helpers that get_zotero_information calls for a list of properties, in order
InfoSteps(properties) ==
    IF <<"summary">> \in Range(properties)
    THEN <<"library", "groups", "recent", "collections">>
    ELSE (IF <<"recent">> \in Range(properties) THEN <<"recent">> ELSE <<>>)
         \o (IF <<"tags">> \in Range(properties) THEN <<"tags">> ELSE <<>>)
         \o (IF <<"collections">> \in Range(properties)
             THEN <<"collections">> ELSE <<>>)

InfoStep(step, limit) ==
    CASE step = "library" -> GetLibraryInfo
      [] step = "groups" -> GetGroups
      [] step = "recent" -> GetRecentItems(limit)
      [] step = "tags" -> GetTags(limit)
      [] step = "collections" -> GetCollections(limit)

\* response_data after the steps, or the exception that ended them:
\* [data, exc, api, cause, empties], empties (history) being the steps whose
\* backend call returned an empty result
RECURSIVE RunInfo(_, _)
RunInfo(steps, limit) ==
    IF steps = <<>>
    THEN {[data |-> EmptyDict, exc |-> NoExc, api |-> <<>>, cause |-> NoExc,
           empties |-> {}]}
    ELSE UNION {
           IF Raised(r) THEN {r}
           ELSE {[data |-> IF Raised(h) THEN r.data
                           ELSE (steps[Len(steps)] :> h.ret) @@ r.data,
                  exc |-> h.exc,
                  api |-> r.api \o h.api,
                  cause |-> IF r.cause # NoExc THEN r.cause ELSE h.cause,
                  empties |-> r.empties
                              \cup (IF h.empty THEN {steps[Len(steps)]} ELSE {})]
                 : h \in InfoStep(steps[Len(steps)], limit)}
         : r \in RunInfo(SubSeq(steps, 1, Len(steps) - 1), limit) }

\* get_zotero_information
GetZoteroInformation(client, self, properties, limit, context) ==
    LET props == SplitStrip(properties)
        summary == <<"summary">> \in Range(props)
        \* the value of `properties` when an exception is caught
        named == IF summary THEN <<<<"recent">>, <<"collections">>>> ELSE props
        Failed(e, api, c, cause) ==
            ToolOutcome(
                Obj([error |-> <<"Failed to fetch library metadata for: ">>
                                \o Join(named, <<", ">>) \o <<". Message: ">> \o e.msg,
                     properties |-> named]),
                GuardedError(context, <<"Failed to fetch library metadata for: ">>
                                \o Join(named, <<", ">>) \o <<". Message: ">> \o e.msg),
                api, c.reqs, c, cause)
    IN  IF InfoSteps(props) = <<>>
        THEN {ToolOutcome(Obj(EmptyDict), <<>>, <<>>, <<>>,
                          Outcome(client, NoExc, <<>>, self), NoExc)}
        ELSE UNION {
          IF Raised(c) THEN {Failed(c.exc, <<>>, c, c.cause)}
          ELSE { IF Raised(r) THEN Failed(r.exc, r.api, c, r.cause)
                 ELSE Emptied(ToolOutcome(Obj(r.data), <<>>, r.api, c.reqs, c, r.cause),
                              r.empties)
               : r \in RunInfo(InfoSteps(props),
                               IF summary THEN PyInt(SummaryLimit) ELSE limit) }
        : c \in GetZoteroClient(client, self) }

---------------------------------------------------------------------------
(* The state machine.  The server handles one request at a time: a call is *)
(* made when none is pending, and `last` holds it, with the state it found, *)
(* until the server has answered.                                           *)

Idle == [op |-> "idle"]

Self == [BBT |-> BBT, cache |-> bbt_ready_cache, seen |-> seenReady,
         probes |-> probesSent]

Pre == [client |-> zotero_client, self |-> Self]

Store(client, self) ==
    /\ zotero_client' = client
    /\ BBT' = self.BBT
    /\ bbt_ready_cache' = self.cache
    /\ seenReady' = self.seen
    /\ probesSent' = self.probes

\* the arguments tried
KeySymbols == {"A", "B", ",", " "}
PropSymbols == {"summary", "recent", "tags", "collections", ","}
QuerySymbols == {"q", " "}
Contexts == {"None", "Context"}
Tags == {PyNone, Str(<<"t">>)}
CollectionKeys == {<<"C">>}
KeyLists == UNION {[1..n -> LibraryKeys] : n \in 0..2}

\* the module as imported: no client yet
Init ==
    /\ zotero_client = "None"
    /\ BBT = NewWrapper.BBT
    /\ bbt_ready_cache = NewWrapper.cache
    /\ seenReady = NewWrapper.seen
    /\ probesSent = NewWrapper.probes
    /\ last = Idle

\* a tool call with one of its outcomes
Tool(op, args, outcomes) ==
    /\ last = Idle
    /\ \E o \in outcomes :
         /\ Store(o.client, o.self)
         /\ last' = [op |-> op, args |-> args, pre |-> Pre, ret |-> o.ret,
                     exc |-> NoExc, diag |-> o.diag, api |-> o.api, bbt |-> o.bbt,
                     cause |-> o.cause, fetched |-> o.fetched,
                     empty |-> o.empty]

\* a call of a method of the client, once there is one
Method(op, args, outcomes) ==
    /\ last = Idle
    /\ zotero_client # "None"
    /\ \E o \in outcomes :
         /\ Store(zotero_client, o.self)
         /\ last' = [op |-> op, args |-> args, pre |-> Pre, ret |-> o.ret,
                     exc |-> o.exc, diag |-> <<>>, api |-> <<>>, bbt |-> o.reqs,
                     cause |-> NoExc, fetched |-> <<>>, empty |-> {}]

get_zotero_information ==
    \E properties \in StringsUpTo(PropSymbols, MaxProps), limit \in Limits,
       context \in Contexts :
        Tool("get_zotero_information",
             [properties |-> properties, limit |-> limit, context |-> context],
             GetZoteroInformation(zotero_client, Self, properties, limit, context))

get_collection_items ==
    \E collection_key \in CollectionKeys, limit \in Limits, context \in Contexts :
        Tool("get_collection_items",
             [collection_key |-> collection_key, limit |-> limit, context |-> context],
             GetCollectionItems(zotero_client, Self, collection_key, limit, context))

get_items_metadata ==
    \E item_key \in StringsUpTo(KeySymbols, MaxLen), include_bibtex \in BOOLEAN,
       context \in Contexts :
        Tool("get_items_metadata",
             [item_key |-> item_key, include_bibtex |-> include_bibtex,
              context |-> context],
             GetItemsMetadata(zotero_client, Self, item_key, include_bibtex, context))

search_library ==
    \E query \in StringsUpTo(QuerySymbols, MaxQuery), tag \in Tags,
       include_abstract \in BOOLEAN, limit \in Limits, context \in Contexts :
        Tool("search_library",
             [query |-> query, tag |-> tag, include_abstract |-> include_abstract,
              limit |-> limit, context |-> context],
             SearchLibrary(zotero_client, Self, query, tag, include_abstract, limit,
                           context))

check_bbt_library_ready ==
    Method("_check_bbt_library_ready", EmptyDict, CheckBbtLibraryReady(Self))

citation_keys ==
    \E item_keys \in KeyLists :
        Method("citation_keys", [item_keys |-> item_keys],
               CitationKeys(Self, item_keys))

\* the server answers the caller and waits for the next request
Respond ==
    /\ last # Idle
    /\ last' = Idle
    /\ UNCHANGED <<zotero_client, BBT, bbt_ready_cache, seenReady, probesSent>>

Next ==
    \/ get_zotero_information
    \/ get_collection_items
    \/ get_items_metadata
    \/ search_library
    \/ check_bbt_library_ready
    \/ citation_keys
    \/ Respond

Spec == Init /\ [][Next]_vars

---------------------------------------------------------------------------
(* format_item on its own: a raw record is drawn, then formatted.  `last`   *)
(* holds the record, and the result once format_item has run.               *)

\* the dict with the key `name` and one of the values, or without the key
Opt(name, values) == {EmptyDict} \cup {name :> v : v \in values}

\* the texts of a note: up to MaxTokens heading tags and letters, and the note
\* <h1>T</h1><p>B</p>
HtmlTokens == {HOpen(1), HOpen(2), HOpen(6), HClose(1), HClose(6), <<"T">>}

RECURSIVE Flatten(_)
Flatten(tokens) ==
    IF tokens = <<>> THEN <<>> ELSE Head(tokens) \o Flatten(Tail(tokens))

TitleAndBody ==
    HOpen(1) \o <<"T">> \o HClose(1) \o Tag(<<"p">>) \o <<"B">> \o EndTag(<<"p">>)

Htmls == {Flatten(t) : t \in StringsUpTo(HtmlTokens, MaxTokens)} \cup {TitleAndBody}

\* the `data` of raw records, with and without each field that format_item reads
RawData ==
    { k @@ t @@ it @@ cr @@ ab @@ doi @@ tg @@ ch :
        k \in Opt("key", {Str(<<"A">>)}),
        t \in Opt("title", {Str(<<"X">>)}),
        it \in Opt("itemType", {Str(<<"journalArticle">>), Str(<<"note">>)}),
        cr \in Opt("creators", {List(<<[firstName |-> Str(<<"A">>),
                                        lastName |-> Str(<<"B">>)],
                                       [lastName |-> Str(<<>>)]>>)}),
        ab \in Opt("abstractNote", {Str(<<"abstract">>)}),
        doi \in Opt("DOI", {Str(<<"10.1/x">>)}),
        tg \in Opt("tags", {List(<<[tag |-> Str(<<"t">>)], [tag |-> Str(<<>>)],
                                   [type |-> PyInt(1)]>>)}),
        ch \in {EmptyDict, [children |-> List(<<>>)],
                [children |-> List(<<>>), meta |-> [numChildren |-> PyInt(2)]]} }

\* the `data` of notes, one for each text
NoteData ==
    { [key |-> Str(<<"B">>), itemType |-> Str(<<"note">>),
       parentItem |-> Str(<<"A">>), note |-> Str(h)] : h \in Htmls }

RawRecords ==
    {[data |-> d] : d \in RawData \cup NoteData}
    \cup {EmptyDict,
          [data |-> [key |-> Str(<<"A">>)], BBT_key |-> Str(<<"cite">>)]}

FormatInit ==
    /\ zotero_client = "None"
    /\ BBT = NewWrapper.BBT
    /\ bbt_ready_cache = NewWrapper.cache
    /\ seenReady = NewWrapper.seen
    /\ probesSent = NewWrapper.probes
    /\ \E item \in RawRecords, include_abstract \in BOOLEAN :
         last = [op |-> "record", item |-> item,
                 include_abstract |-> include_abstract]

format_item ==
    /\ last.op = "record"
    /\ last' = [op |-> "format_item", item |-> last.item,
                include_abstract |-> last.include_abstract,
                ret |-> FormatItem(last.item, last.include_abstract)]
    /\ UNCHANGED <<zotero_client, BBT, bbt_ready_cache, seenReady, probesSent>>

FormatNext == format_item

FormatSpec == FormatInit /\ [][FormatNext]_vars

---------------------------------------------------------------------------
(* Properties. *)

Tools == {"get_zotero_information", "get_collection_items", "get_items_metadata",
          "search_library"}

Sent(request) == last # Idle /\ request \in Range(last.bbt)

\* the text ends with the message
EndsWith(text, msg) ==
    /\ Len(text) >= Len(msg)
    /\ SubSeq(text, Len(text) - Len(msg) + 1, Len(text)) = msg

\* an advisory: an object with an error and a suggestion
IsAdvisory(p) ==
    p.shape = "object" /\ Has(p.json, "error") /\ Has(p.json, "suggestion")

\* C1: once _check_bbt_library_ready has returned True, the client stays ready
\* (endpoint found, positive result cached), and every later call, of any
\* operation, sends neither api.ready nor the endpoint GET; a later
\* _check_bbt_library_ready returns True with no request at all, and a later
\* citation_keys is not refused as unavailable or not ready.
C1_ReadyIsPermanent ==
    /\ seenReady => (zotero_client # "None" /\ BBT /\ bbt_ready_cache = "True")
    /\ (last # Idle /\ last.pre.self.seen) =>
          /\ ~Sent(ApiReady) /\ ~Sent(GetEndpoint)
          /\ last.op = "_check_bbt_library_ready" =>
                (last.ret = TRUE /\ last.exc = NoExc /\ last.bbt = <<>>)
          /\ last.op = "citation_keys" => last.exc \notin {NotAvailable, NotReady}

C1_Witness ==
    /\ last.op = "_check_bbt_library_ready"
    /\ last.pre.self.seen
    /\ last.ret = TRUE

\* C2: a client whose endpoint check failed (BBT false) has sent no api.ready
\* request and sends none, and is never ready: nothing is cached, its
\* _check_bbt_library_ready returns False, its citation_keys is refused as
\* unavailable; the call that built it sent the endpoint GET and nothing else.
C2_EndpointFailedNeverProbes ==
    (zotero_client # "None" /\ ~BBT) =>
        /\ probesSent = 0 /\ ~seenReady /\ bbt_ready_cache = "None"
        /\ ~Sent(ApiReady)
        /\ (last # Idle /\ last.pre.client = "None") => last.bbt = <<GetEndpoint>>
        /\ (last # Idle /\ last.pre.client # "None") => last.bbt = <<>>
        /\ last.op = "_check_bbt_library_ready" => last.ret = FALSE
        /\ last.op = "citation_keys" => last.exc = NotAvailable

C2_Witness ==
    /\ zotero_client # "None" /\ ~BBT
    /\ last.op = "citation_keys"
    /\ last.args.item_keys # <<>>

\* C3 as claimed: every citation_keys call made while the positive result is not
\* cached sends a request to the Better BibTeX service.
C3_Original ==
    (last.op = "citation_keys" /\ last.pre.self.cache # "True") => last.bbt # <<>>

\* C3, amended: only a positive result is ever cached; while none is cached, a
\* citation_keys call of a client whose endpoint check succeeded first sends
\* api.ready, is refused as not ready without caching anything if the answer is
\* not a ready one, and goes on only with the positive result cached; a
\* citation_keys call of a client whose endpoint check failed sends nothing and
\* is refused as unavailable.
C3_Amended ==
    /\ bbt_ready_cache \in {"None", "True"}
    /\ bbt_ready_cache = "True" => seenReady
    /\ (last.op = "citation_keys" /\ last.pre.self.BBT
            /\ last.pre.self.cache # "True") =>
          /\ last.bbt # <<>> /\ last.bbt[1] = ApiReady
          /\ last.exc = NotReady => bbt_ready_cache = "None"
          /\ (last.exc = NoExc \/ Sent(ItemCitationKey)) =>
                (bbt_ready_cache = "True" /\ seenReady)
    /\ (last.op = "citation_keys" /\ ~last.pre.self.BBT) =>
          (last.bbt = <<>> /\ last.exc = NotAvailable /\ ~seenReady)

\* a service that was not ready when the client was built is seen ready later
C3_Witness ==
    /\ last.op = "citation_keys"
    /\ last.pre.self.BBT /\ last.pre.self.cache = "None" /\ last.pre.self.probes >= 1
    /\ bbt_ready_cache = "True"
    /\ last.exc = NoExc

\* C4: citation_keys of an empty list returns the empty mapping and sends nothing.
C4_EmptyListNoContact ==
    (last.op = "citation_keys" /\ last.args.item_keys = <<>>) =>
        (last.exc = NoExc /\ last.ret = JMap(<<>>) /\ last.bbt = <<>>)

\* C5: get_items_metadata with include_bibtex, when the backend calls succeeded
\* and found items, returns the items and not the error payload, whatever
\* became of the citation keys and whatever the context.
C5_EnrichmentFailureNonFatal ==
    (last.op = "get_items_metadata" /\ last.args.include_bibtex
         /\ last.cause = NoExc /\ last.fetched # <<>>) =>
        \/ last.ret.shape = "list"
        \/ (Has(last.ret.json, "items") /\ ~Has(last.ret.json, "error"))

\* C6: citation_keys of a non-empty list sends item.citationkey when the client
\* is ready, and otherwise sends none and fails as unavailable or not ready.
C6_LookupOnlyWhenReady ==
    (last.op = "citation_keys" /\ last.args.item_keys # <<>>) =>
        IF bbt_ready_cache = "True"
        THEN Sent(ItemCitationKey)
        ELSE ~Sent(ItemCitationKey) /\ last.exc \in {NotAvailable, NotReady}

\* C7: get_items_metadata, when the backend finds some but not all of the
\* requested keys, returns {log, items}: items the formatted records found (with
\* or without a citation key), log.missing_keys the requested keys not found.
C7_PartialFetch ==
    (last.op = "get_items_metadata" /\ last.cause = NoExc /\ last.fetched # <<>>) =>
        LET requested == Range(SplitStrip(last.args.item_key))
            found == Dedup([i \in 1..Len(last.fetched) |-> last.fetched[i].key])
        IN  Range(found) # requested =>
              /\ last.ret.shape = "object"
              /\ Has(last.ret.json, "log") /\ Has(last.ret.json, "items")
              /\ last.ret.json.log.missing_keys = requested \ Range(found)
              /\ Len(last.ret.json.items) = Len(found)
              /\ \A i \in 1..Len(found) :
                    LET got == last.ret.json.items[i]
                    IN  [k \in DOMAIN got \ {"bibtexKey"} |-> got[k]]
                        = FormatItem(RawItem(found[i]), TRUE)

\* C8: search_library of a query of whitespace only returns the advisory and
\* calls nothing: no client is built, no backend call, no Better BibTeX request.
C8_BlankQueryCallsNothing ==
    (last.op = "search_library"
         /\ \A i \in DOMAIN last.args.query : last.args.query[i] \in Whitespace) =>
        /\ last.ret = Obj([error |-> <<"Search query is required">>])
        /\ last.api = <<>> /\ last.bbt = <<>> /\ last.diag = <<>>
        /\ zotero_client = last.pre.client /\ Self = last.pre.self

C8_Witness ==
    /\ last.op = "search_library"
    /\ last.args.query = <<" ">>
    /\ last.pre.client = "None"

\* C9: a tool call in which a backend call or the construction of the client
\* failed returns an error object whose text ends with the message of that
\* failure.
C9_FailureCarriesMessage ==
    (last # Idle /\ last.op \in Tools /\ last.cause # NoExc) =>
        /\ last.ret.shape = "object"
        /\ Has(last.ret.json, "error")
        /\ EndsWith(last.ret.json.error, last.cause.msg)

\* C10: a tool call whose backend call returned an empty result answers with an
\* advisory (for get_zotero_information: under the property's name).
C10_EmptyResultAdvisory ==
    /\ (last.op \in {"get_collection_items", "get_items_metadata", "search_library"}
            /\ last.cause = NoExc /\ last.api # <<>> /\ last.fetched = <<>>) =>
          IsAdvisory(last.ret)
    /\ (last.op = "get_zotero_information" /\ last.cause = NoExc) =>
          \A step \in last.empty \cap {"recent", "tags", "collections"} :
              IsAdvisory(last.ret.json[step])

\* the values of a formatted record, and the members of its lists
IsNull(v) == v = PyNone \/ (v.t = "list" /\ \E i \in DOMAIN v.v : v.v[i] = PyNone)

\* C11: the output of format_item has no key whose value is null.
C11_NoNullValue ==
    last.op = "format_item" => \A k \in DOMAIN last.ret : ~IsNull(last.ret[k])

\* the data of the record that format_item was given
ItemData == Get(last.item, "data", EmptyDict)
IsNote == Get(ItemData, "itemType", PyNone) = Str(<<"note">>)

\* C12: the output of format_item for a note has neither authors nor
\* abstractNote, whatever include_abstract and whatever the record carries.
C12_NoteHasNoAuthorsNorAbstract ==
    (last.op = "format_item" /\ IsNote) =>
        /\ ~Has(last.ret, "authors")
        /\ ~Has(last.ret, "abstractNote")

C12_Witness ==
    /\ last.op = "format_item" /\ IsNote
    /\ Has(ItemData, "creators") /\ Has(ItemData, "abstractNote")
    /\ last.include_abstract
    /\ Has(last.ret, "note")

\* a text with each heading tag, read left to right, replaced by its marker:
\* <hn> by n times # and a space, </hn> by two line breaks
RECURSIVE HeadingMarkers(_)
HeadingMarkers(s) ==
    IF s = <<>> THEN <<>>
    ELSE IF \E n \in 1..6 : StartsWith(s, HOpen(n))
    THEN LET n == CHOOSE m \in 1..6 : StartsWith(s, HOpen(m))
         IN  Hashes(n) \o <<" ">> \o HeadingMarkers(Drop(s, Len(HOpen(n))))
    ELSE IF \E n \in 1..6 : StartsWith(s, HClose(n))
    THEN LET n == CHOOSE m \in 1..6 : StartsWith(s, HClose(m))
         IN  <<"\n", "\n">> \o HeadingMarkers(Drop(s, Len(HClose(n))))
    ELSE <<Head(s)>> \o HeadingMarkers(Tail(s))

\* C13: in the note of a formatted note record, each heading tag of level n has
\* become n times # and a space, whatever the other levels in the text; the
\* whole is trimmed.  <h1>T</h1><p>B</p> becomes "# T\n\nB".
C13_HeadingMarkers ==
    (last.op = "format_item" /\ IsNote /\ Has(ItemData, "note")) =>
        IF ItemData.note.v = TitleAndBody
        THEN last.ret.note = Str(<<"#", " ", "T", "\n", "\n", "B">>)
        ELSE last.ret.note = Str(Strip(HeadingMarkers(ItemData.note.v)))

C13_Witness ==
    /\ last.op = "format_item" /\ IsNote /\ Has(ItemData, "note")
    /\ ItemData.note.v = HOpen(6) \o HOpen(1) \o <<"T">>
    /\ last.ret.note = Str(Hashes(6) \o <<" ", "#", " ", "T">>)

\* whether the tool call in `last` reaches a _get_zotero_client()
NeedsClient ==
    CASE last.op = "search_library" -> Strip(last.args.query) # <<>>
      [] last.op = "get_zotero_information" ->
             InfoSteps(SplitStrip(last.args.properties)) # <<>>
      [] OTHER -> TRUE

\* whether the tool call in `last` asks for citation keys
Enriches == last.op = "get_items_metadata" /\ last.args.include_bibtex

C15_LogIffMissing ==
    (last.op = "get_items_metadata" /\ last.cause = NoExc /\ last.fetched # <<>>) =>
        LET requested == Range(SplitStrip(last.args.item_key))
            found == {last.fetched[i].key : i \in DOMAIN last.fetched}
            logForm == /\ last.ret.shape = "object"
                       /\ Has(last.ret.json, "log") /\ Has(last.ret.json, "items")
        IN  /\ logForm <=> (requested \ found # {})
            /\ requested \subseteq found => last.ret.shape = "list"
            /\ logForm => last.ret.json.log.missing_keys # {}

===========================================================================
